---------------------------- MODULE Spec2Model ----------------------------
(***************************************************************************)
(* A model of the paint-spraying simulation: the coverage raster           *)
(* (spray_parameters.py, WallMesh), the particle kernels and the simulator *)
(* loop (spray_simulator.py).                                              *)
(*                                                                         *)
(* Number representation.                                                  *)
(*   - Python float literals and arguments (wall size, bounds, speeds) are *)
(*     integers in 1/1000; times are integers in milliseconds.             *)
(*   - Particle positions and velocities, and the world positions passed   *)
(*     to the WallMesh, are float32 values <<m, e>> (see below), computed  *)
(*     with the rounding of the float32 operations of the kernels.         *)
(*   - Coverage values are numpy float32.  A coverage value v is the       *)
(*     integer v * 2^30.  Every float32 in [2^-7, 2) is a multiple of      *)
(*     2^-30, so with the intensities used here (0, or >= 0.09 and < 1)    *)
(*     every value the code stores is represented exactly, and F32Round    *)
(*     below is the IEEE round-to-nearest-even of float32.                 *)
(*   - A Python float argument (the intensity) is the rational <<n, d>>,   *)
(*     in lowest terms.                                                    *)
(***************************************************************************)
EXTENDS Integers, Sequences, FiniteSets, TLC

VARIABLES
    pc,               \* which operation of the program runs next
    wall,             \* WallMesh: [width, height, resolution], or "none"
    paint_coverage,   \* WallMesh.paint_coverage: the non-zero cells, <<y, x>> |-> value
    params,           \* SprayParameters of the simulator
    nozzle_position,  \* SpraySimulator.nozzle_position <<x, y, z>>
    spray_direction,  \* SpraySimulator.spray_direction <<x, y, z>>
    positions,        \* SpraySimulator.positions  (tid |-> <<x, y, z>>)
    velocities,       \* SpraySimulator.velocities (tid |-> <<x, y, z>>)
    active,           \* SpraySimulator.active     (tid |-> 0 or 1)
    hit_wall,         \* SpraySimulator.hit_wall   (tid |-> 0 or 1)
    step,             \* run_simulation: the loop variable (frame index)
    sub,              \* run_simulation: sub-steps done in this frame
    moves,            \* history: number of move_nozzle calls so far
    calls,            \* history: number of calls made by the driver
    last              \* history: the last call, its arguments and the state before it

vars == <<pc, wall, paint_coverage, params, nozzle_position, spray_direction,
          positions, velocities, active, hit_wall, step, sub, moves, calls, last>>

-----------------------------------------------------------------------------
(* Bounds of the model *)

\* add_paint calls made by the deposit driver
MaxCalls == 2

\* hit points passed to one add_paint call
MaxHits == 2

\* grid resolution of the wall used by the deposit driver
DepositRes == 4

-----------------------------------------------------------------------------
(* Arithmetic helpers *)

Min(a, b) == IF a < b THEN a ELSE b

Max(a, b) == IF a > b THEN a ELSE b

Abs(a) == IF a < 0 THEN -a ELSE a

\* <<q, r>> with a*b = q*c + r and 0 <= r < c, for c < 2^27 and a*b/c < 2^31,
\* computed without leaving 31 bits (b is taken three bits at a time)
RECURSIVE MulDivQR(_, _, _)
MulDivQR(a, b, c) ==
    IF b = 0 THEN <<0, 0>>
    ELSE LET h == MulDivQR(a, b \div 8, c)
             t == 8 * h[2] + (b % 8) * (a % c)
         IN  << 8 * h[1] + (b % 8) * (a \div c) + t \div c, t % c >>

-----------------------------------------------------------------------------
(***************************************************************************)
(* float32 of the Warp kernels (wp.vec3, float).  A float32 is the pair    *)
(* <<m, e>> with value m * 2^e and 2^23 <= |m| < 2^24, or <<0, 0>>.  The   *)
(* operations round to nearest, ties to even, one operation at a time (no  *)
(* fused multiply-add); the exponent is not bounded, so overflow to        *)
(* infinity and subnormal numbers are left out.                            *)
(***************************************************************************)

Pow2 == [k \in 0..30 |-> 2^k]

FpZero == <<0, 0>>

\* number of significant bits of n, 0 < n < 2^30
BitLen(n) == CHOOSE k \in 1..30 : Pow2[k - 1] <= n /\ n < Pow2[k]

\* the float32 nearest to n * 2^e, |n| < 2^30; if sticky, the exact value lies
\* beyond n by a fraction of its last bit (n then has at least 25 bits).  Here
\* and below an operand is bound once, as x or y, and the result is computed from
\* the bound values.
FpRound(n, e, sticky) ==
    CHOOSE res \in
        { IF x = 0 THEN FpZero
          ELSE LET a == Abs(x)
                   s == IF x < 0 THEN -1 ELSE 1
                   k == BitLen(a) - 24
               IN  IF k <= 0 THEN << s * a * Pow2[-k], e + k >>
                   ELSE LET q    == a \div Pow2[k]
                            r    == a % Pow2[k]
                            half == Pow2[k - 1]
                            up   == r > half \/ (r = half /\ (sticky \/ q % 2 = 1))
                            m    == IF up THEN q + 1 ELSE q
                        IN  IF m = Pow2[24] THEN << s * Pow2[23], e + k + 1 >>
                            ELSE << s * m, e + k >> : x \in {n} } : TRUE

FpNeg(a) == CHOOSE res \in { << -x[1], x[2] >> : x \in {a} } : TRUE

FpAbs(a) == CHOOSE res \in { << Abs(x[1]), x[2] >> : x \in {a} } : TRUE

\* a + b: the operand of the lower exponent is shifted under three guard bits, the
\* bits shifted out are kept as one sticky bit
FpAdd(a, b) ==
    CHOOSE res \in
        { IF x[1] = 0 THEN y
          ELSE IF y[1] = 0 THEN x
          ELSE LET hi == IF x[2] >= y[2] THEN x ELSE y
                   lo == IF x[2] >= y[2] THEN y ELSE x
                   d  == hi[2] - lo[2]
                   t  == 8 * Abs(lo[1])
                   q  == IF d >= 28 THEN 0 ELSE t \div Pow2[d]
                   sh == IF (d >= 28 \/ t % Pow2[d] # 0) /\ q % 2 = 0 THEN q + 1 ELSE q
               IN  FpRound(8 * hi[1] + (IF lo[1] < 0 THEN -sh ELSE sh), hi[2] - 3, FALSE)
          : x \in {a}, y \in {b} } : TRUE

FpSub(a, b) == FpAdd(a, FpNeg(b))

\* a * b: the 48-bit product of the significands from their 12-bit halves
FpMul(a, b) ==
    CHOOSE res \in
        { IF x[1] = 0 \/ y[1] = 0 THEN FpZero
          ELSE LET u    == Abs(x[1])
                   v    == Abs(y[1])
                   mid  == (u \div 4096) * (v % 4096) + (u % 4096) * (v \div 4096)
                   low  == (mid % 4096) * 4096 + (u % 4096) * (v % 4096)
                   high == (u \div 4096) * (v \div 4096) + mid \div 4096 + low \div Pow2[24]
                   rest == low % Pow2[24]
                   n    == 4 * high + rest \div Pow2[22]
               IN  FpRound(IF (x[1] < 0) = (y[1] < 0) THEN n ELSE -n,
                           x[2] + y[2] + 22, rest % Pow2[22] # 0)
          : x \in {a}, y \in {b} } : TRUE

\* five more bits of a quotient: <<quotient, remainder>> of the division by d
DivStep(qr, d) ==
    CHOOSE res \in { << 32 * x[1] + (32 * x[2]) \div d, (32 * x[2]) % d >> : x \in {qr} } : TRUE

\* a / b, b # 0: 26 bits of the quotient of the significands, by long division
FpDiv(a, b) ==
    CHOOSE res \in
        { IF x[1] = 0 THEN FpZero
          ELSE LET u  == Abs(x[1])
                   v  == Abs(y[1])
                   qr == DivStep(DivStep(DivStep(DivStep(DivStep(<< u \div v, u % v >>,
                                                                v), v), v), v), v)
               IN  FpRound(IF (x[1] < 0) = (y[1] < 0) THEN qr[1] ELSE -qr[1],
                           x[2] - y[2] - 25, qr[2] # 0)
          : x \in {a}, y \in {b} } : TRUE

\* the square root of n * 2^24, n < 2^26, digit by digit from the pair of bits j
\* down: <<root, remainder>>
RECURSIVE SqrtDigits(_, _, _, _)
SqrtDigits(n, j, root, rem) ==
    IF j > 25 THEN << root, rem >>
    ELSE CHOOSE res \in
             { IF y >= 4 * x + 1 THEN SqrtDigits(n, j + 1, 2 * x + 1, y - (4 * x + 1))
               ELSE SqrtDigits(n, j + 1, 2 * x, y)
               : x \in {root},
                 y \in {4 * rem + (IF j <= 13 THEN (n \div Pow2[2 * (13 - j)]) % 4 ELSE 0)} }
             : TRUE

\* sqrt(a), a >= 0: 25 bits of the root, then rounded
FpSqrt(a) ==
    CHOOSE res \in
        { IF x[1] = 0 THEN FpZero
          ELSE LET odd == x[2] % 2 = 1
                   s   == SqrtDigits(IF odd THEN 2 * x[1] ELSE 4 * x[1], 1, 0, 0)
               IN  FpRound(s[1], (IF odd THEN x[2] - 25 ELSE x[2] - 26) \div 2, s[2] # 0)
          : x \in {a} } : TRUE

\* a < b
FpLess(a, b) == FpSub(a, b)[1] < 0

\* a <= b
FpLeq(a, b) == ~FpLess(b, a)

\* the float32 of the integer n, |n| < 2^30
FpFromInt(n) == FpRound(n, 0, FALSE)

\* the float32 of the Python float k / 1000
FpFromMillis(k) == FpDiv(FpFromInt(k), FpFromInt(1000))

\* beyond every index of a grid
Huge == 2^30

\* floor(a * k) for an integer k, 0 < k < 2^18; Huge or -Huge for |a| >= 2^12
FloorScaled(a, k) ==
    IF a[1] = 0 THEN 0
    ELSE IF a[2] > -12 THEN (IF a[1] > 0 THEN Huge ELSE -Huge)
    ELSE IF a[2] >= -26 THEN MulDivQR(a[1], k, Pow2[-a[2]])[1]
    ELSE IF a[2] <= -56 THEN (IF a[1] > 0 THEN 0 ELSE -1)
    ELSE MulDivQR(a[1], k, Pow2[26])[1] \div Pow2[-a[2] - 26]

-----------------------------------------------------------------------------
(* float32 (paint_coverage has dtype=np.float32) *)

\* the float32 1.0
F32One == 2^30

\* spacing of the float32 numbers around n (n in units of 2^-30): 24-bit significand
RECURSIVE F32Ulp(_)
F32Ulp(n) == IF n < 2^24 THEN 1 ELSE 2 * F32Ulp(n \div 2)

\* the float32 nearest to q + r/d (r < d), ties to even
F32RoundQR(q, r, d) ==
    LET u    == F32Ulp(q)
        lo   == (q \div u) * u
        x    == q - lo
        up   == IF u = 1 THEN 2 * r > d
                ELSE (2 * x > u) \/ (2 * x = u /\ r > 0)
        tie  == IF u = 1 THEN 2 * r = d ELSE (2 * x = u /\ r = 0)
    IN  IF up THEN lo + u
        ELSE IF tie /\ ((lo \div u) % 2 = 1) THEN lo + u
        ELSE lo

\* the float32 nearest to the integer n (units of 2^-30)
F32Round(n) == F32RoundQR(n, 0, 1)

\* a Python float n/d converted to float32
F32FromRational(n, d) ==
    LET qr == MulDivQR(F32One, n, d) IN F32RoundQR(qr[1], qr[2], d)

\* np.float32 + Python float: the float is first converted to float32 (a32 is the
\* converted value), and the sum is a float32
F32AddWeak(c, a32) == F32Round(c + a32)


-----------------------------------------------------------------------------
(* WallMesh (spray_parameters.py) *)

\* WallMesh.__init__ defaults: width 4.0, height 3.0, resolution 128
DefaultWall == [width |-> 4000, height |-> 3000, resolution |-> 128]

\* np.zeros((resolution, resolution)): no cell is non-zero
ZeroCoverage == << >>

\* paint_coverage[y, x]
Cov(g, y, x) == IF <<y, x>> \in DOMAIN g THEN g[<<y, x>>] ELSE 0

\* the grid g with the cells of DOMAIN f set to f's values, kept as its non-zero cells
SetCells(g, f) ==
    LET all == [c \in (DOMAIN g) \cup (DOMAIN f) |->
                    IF c \in DOMAIN f THEN f[c] ELSE g[c]]
        nz  == {c \in DOMAIN all : all[c] # 0}
    IN  [c \in nz |-> all[c]]

\* the binade of the float64 len / 2 (half the width or height): 2^E <= len/2 < 2^(E+1),
\* len in 1/1000
HalfExp(len) ==
    CHOOSE E \in -10..5 :
        IF E >= 0 THEN 2000 * Pow2[E] <= len /\ len < 4000 * Pow2[E]
        ELSE 2000 <= len * Pow2[-E] /\ len * Pow2[-E] < 4000

\* world_pos + len / 2 is a float64 sum: a negative coordinate c of at most half the
\* spacing of the float64 numbers below len / 2 is rounded away, the sum is len / 2
LostInSum(c, len) ==
    LET E == HalfExp(len)
        g == IF len * Pow2[10] = 2000 * Pow2[E + 10] THEN E - 54 ELSE E - 53
    IN  c[1] < 0 /\ (c[2] + 24 <= g \/ (c[1] = -Pow2[23] /\ c[2] + 23 = g))

\* int(u * resolution) for u = (c + len / 2) / len: the quotient truncated toward
\* zero.  With c a float32 value the float64 operations round only in the sum
\* (LostInSum), so the index is that of the exact quotient
\* (2000 c + len) * res / (2 * len), len in 1/1000.
TextureIndex(c, len, res) ==
    LET v == IF LostInSum(c, len) THEN FpZero ELSE c
        n == FloorScaled(v, 2000 * res) + len * res
    IN  IF n >= 0 THEN n \div (2 * len)
        ELSE -((FloorScaled(FpNeg(v), 2000 * res) - len * res) \div (2 * len))

\* world_to_texture without the clamp of lines 66-67
world_to_texture_unclamped(w, pos) ==
    << TextureIndex(pos[1], w.width, w.resolution),
       TextureIndex(pos[2], w.height, w.resolution) >>

\* WallMesh.world_to_texture: <<x, y>> of the cell of a world position
world_to_texture(w, pos) ==
    LET x == TextureIndex(pos[1], w.width, w.resolution)
        y == TextureIndex(pos[2], w.height, w.resolution)
    IN  << Max(0, Min(x, w.resolution - 1)), Max(0, Min(y, w.resolution - 1)) >>

\* spread_radius = 2
spread_radius == 2

\* the factor 0.3 of the spread intensity
FalloffNum == 3

FalloffDen == 10

\* the 0.2 of abs(pos[2]) < 0.2
ZTolerance == 200

\* abs(pos[2]) < 0.2
NearPlane(pos) == FloorScaled(FpAbs(pos[3]), 1000) < ZTolerance

\* math.sqrt(n) for the n = dx*dx + dy*dy of the neighbourhood, as a rational <<a, b>>
\* (sqrt 2 and sqrt 8 by the continued-fraction convergent 275807/195025 of sqrt 2,
\* relative error below 1e-11; sqrt 5 by 161/72)
SqrtRat(n) ==
    CASE n = 0 -> <<0, 1>>
      [] n = 1 -> <<1, 1>>
      [] n = 2 -> <<275807, 195025>>
      [] n = 4 -> <<2, 1>>
      [] n = 5 -> <<161, 72>>
      [] n = 8 -> <<551614, 195025>>

\* spread_intensity = intensity * 0.3 * max(0, 1 - distance / spread_radius),
\* a Python float, as the rational <<n, d>>
spread_intensity(intensity, dx, dy) ==
    LET dist == SqrtRat(dx * dx + dy * dy)
        num  == spread_radius * dist[2] - dist[1]
        den  == spread_radius * dist[2]
    IN  IF num <= 0 THEN <<0, 1>>
        ELSE << intensity[1] * FalloffNum * num, intensity[2] * FalloffDen * den >>

\* paint intensities passed to add_paint: 0, SprayParameters.paint_intensity (0.15)
\* and 0.5
Intensities == { <<0, 1>>, <<3, 20>>, <<1, 2>> }

Offsets == (-spread_radius..spread_radius) \X (-spread_radius..spread_radius)

\* the amount added at offset <<dx, dy>> of the primary cell (the intensity itself
\* at <<0, 0>>), converted to float32; @@ makes TLC tabulate the function once
AmountF32 ==
    [k \in Intensities \X Offsets |->
        LET a == IF k[2] = <<0, 0>> THEN k[1]
                 ELSE spread_intensity(k[1], k[2][1], k[2][2])
        IN  F32FromRational(a[1], a[2])] @@ << >>

\* for the mutant add_paint_one_centre: the spread amount at distance 0
CentreSpreadF32 ==
    [i \in Intensities |->
        F32FromRational(spread_intensity(i, 0, 0)[1], spread_intensity(i, 0, 0)[2])] @@ << >>

\* mutant of Deposit: saturation is tested before the addition, the sum is not clamped
DepositUnclamped(old, a32) ==
    IF old >= F32One THEN old ELSE F32AddWeak(old, a32)

\* min(1.0, paint_coverage[..] + amount)
Deposit(old, a32) == Min(F32One, F32AddWeak(old, a32))

\* the cells of the (2R+1) x (2R+1) neighbourhood of cell (x, y) that lie in the grid
InGridNeighbourhood(w, x, y) ==
    {c \in {<<y + dy, x + dx>> : dx \in -spread_radius..spread_radius,
                                 dy \in -spread_radius..spread_radius} :
        /\ 0 <= c[2] /\ c[2] < w.resolution
        /\ 0 <= c[1] /\ c[1] < w.resolution}

\* mutant of add_paint_one: the centre is not skipped by the neighbourhood loop
\* (no `continue` for dx = dy = 0), so it also receives a spread deposit
add_paint_one_centre(g, w, pos, intensity) ==
    IF ~NearPlane(pos) THEN g
    ELSE LET t == world_to_texture(w, pos)
         IN  SetCells(g, [c \in InGridNeighbourhood(w, t[1], t[2]) |->
                 IF c = <<t[2], t[1]>>
                 THEN Deposit(Deposit(Cov(g, t[2], t[1]), AmountF32[<<intensity, <<0, 0>>>>]),
                              CentreSpreadF32[intensity])
                 ELSE Deposit(Cov(g, c[1], c[2]),
                              AmountF32[<<intensity, <<c[2] - t[1], c[1] - t[2]>>>>])])

\* mutant of add_paint_one: the primary cell is assigned, not accumulated
add_paint_one_assign(g, w, pos, intensity) ==
    IF ~NearPlane(pos) THEN g
    ELSE LET t == world_to_texture(w, pos)
         IN  SetCells(g, [c \in InGridNeighbourhood(w, t[1], t[2]) |->
                 IF c = <<t[2], t[1]>>
                 THEN Deposit(0, AmountF32[<<intensity, <<0, 0>>>>])
                 ELSE Deposit(Cov(g, c[1], c[2]),
                              AmountF32[<<intensity, <<c[2] - t[1], c[1] - t[2]>>>>])])

\* mutant of add_paint_one: the neighbouring cells are assigned, not accumulated
add_paint_one_spread_assign(g, w, pos, intensity) ==
    IF ~NearPlane(pos) THEN g
    ELSE LET t == world_to_texture(w, pos)
         IN  SetCells(g, [c \in InGridNeighbourhood(w, t[1], t[2]) |->
                 IF c = <<t[2], t[1]>>
                 THEN Deposit(Cov(g, c[1], c[2]), AmountF32[<<intensity, <<0, 0>>>>])
                 ELSE Deposit(0, AmountF32[<<intensity, <<c[2] - t[1], c[1] - t[2]>>>>])])

\* the body of add_paint's loop for one position (lines 78-93)
add_paint_one(g, w, pos, intensity) ==
    IF ~NearPlane(pos) THEN g
    ELSE LET t == world_to_texture(w, pos)
             x == t[1]
             y == t[2]
         IN  SetCells(g, [c \in InGridNeighbourhood(w, x, y) |->
                 Deposit(Cov(g, c[1], c[2]),
                         AmountF32[<<intensity, <<c[2] - x, c[1] - y>>>>])])

\* WallMesh.add_paint(positions, intensity): the positions in order
RECURSIVE add_paint(_, _, _, _)
add_paint(g, w, poss, intensity) ==
    IF Len(poss) = 0 THEN g
    ELSE add_paint(add_paint_one(g, w, Head(poss), intensity), w, Tail(poss), intensity)

-----------------------------------------------------------------------------
(* The deposit driver: a WallMesh and a caller that, like run_simulation (line    *)
(* 336), calls add_paint with lists of hit points and the configured intensity. *)

\* the float32 position (x, y, z), given in 1/1000
Point(x, y, z) == << FpFromMillis(x), FpFromMillis(y), FpFromMillis(z) >>

\* hit points: a point beyond the left and bottom edges of the wall (it maps to the
\* corner cell (0, 0)), the centre of the cell right of the corner (z = 0.15), and a
\* point off the wall plane (z = 0.2)
HitPoints(w) ==
    LET cw == w.width \div w.resolution
        ch == w.height \div w.resolution
    IN  { Point(-w.width, -w.height, 0),
          Point(-(w.width \div 2) + cw + cw \div 2, -(w.height \div 2) + ch \div 2, 150),
          Point(-(w.width \div 2) + cw \div 2, -(w.height \div 2) + ch \div 2, 200) }

SeqsUpTo(S, n) == UNION { [1..k -> S] : k \in 0..n }

NoParticles == << >>

InitDeposit ==
    /\ pc = "deposit"
    /\ wall = [width |-> 4000, height |-> 3000, resolution |-> DepositRes]
    /\ paint_coverage = ZeroCoverage
    /\ \E i \in Intensities : params = [paint_intensity |-> i]
    /\ nozzle_position = <<0, 0, 0>>
    /\ spray_direction = <<0, 0, 0>>
    /\ positions = NoParticles
    /\ velocities = NoParticles
    /\ active = NoParticles
    /\ hit_wall = NoParticles
    /\ step = 0
    /\ sub = 0
    /\ moves = 0
    /\ calls = 0
    /\ last = [op |-> "init"]

AddPaintCall ==
    /\ pc = "deposit"
    /\ calls < MaxCalls
    /\ \E poss \in SeqsUpTo(HitPoints(wall), MaxHits) :
          /\ paint_coverage' = add_paint(paint_coverage, wall, poss, params.paint_intensity)
          /\ last' = [op |-> "add_paint", before |-> paint_coverage,
                      positions |-> poss, intensity |-> params.paint_intensity]
    /\ calls' = calls + 1
    /\ UNCHANGED <<pc, wall, params, nozzle_position, spray_direction, positions,
                   velocities, active, hit_wall, step, sub, moves>>

NextDeposit == AddPaintCall

SpecDeposit == InitDeposit /\ [][NextDeposit]_vars


-----------------------------------------------------------------------------
(* Properties of the deposit (SpecDeposit) *)

Cells(w) == {<<y, x>> : y \in 0..(w.resolution - 1), x \in 0..(w.resolution - 1)}

AfterAddPaint == last.op = "add_paint"

\* the permutations of a sequence
PermutationsOf(sq) ==
    { [i \in 1..Len(sq) |-> sq[f[i]]] :
        f \in {g \in [1..Len(sq) -> 1..Len(sq)] :
                  \A i, j \in 1..Len(sq) : i # j => g[i] # g[j]} }

OnWall(pos) == NearPlane(pos)

\* C1: in every reachable state every cell of paint_coverage is within [0, 1],
\* whatever the number, the order and the positions of the deposits.
C1_CoverageInUnitRange ==
    /\ DOMAIN paint_coverage \subseteq Cells(wall)
    /\ \A c \in DOMAIN paint_coverage :
          0 <= paint_coverage[c] /\ paint_coverage[c] <= F32One

\* C1 witness: a deposit has landed on a cell that was already saturated at 1.0
C1_Witness ==
    /\ AfterAddPaint
    /\ \E i \in 1..Len(last.positions) :
          LET t == world_to_texture(wall, last.positions[i])
          IN  /\ OnWall(last.positions[i])
              /\ Cov(last.before, t[2], t[1]) = F32One
              /\ Cov(paint_coverage, t[2], t[1]) = F32One

\* C2 (as claimed): add_paint gives the same final grid for every permutation of
\* the hit points of one call.
C2_OrderIndependent ==
    AfterAddPaint =>
        \A p \in PermutationsOf(last.positions) :
            add_paint(last.before, wall, p, last.intensity) = paint_coverage

\* one unit in the last place of the float32 1.0: 2^-23
F32Epsilon == 2^7

\* C2 (amended): for every permutation of the n hit points of one call the final
\* grid has the same non-zero cells and every cell differs by at most n * 2^-23:
\* the order changes the result only by float32 rounding.
C2_OrderIndependentUpToRounding ==
    AfterAddPaint =>
        \A p \in PermutationsOf(last.positions) :
            LET g == add_paint(last.before, wall, p, last.intensity)
            IN  /\ DOMAIN g = DOMAIN paint_coverage
                /\ \A c \in DOMAIN g :
                      Abs(g[c] - paint_coverage[c]) <= Len(p) * F32Epsilon

\* C2 witness: two hits with different primary cells and overlapping neighbourhoods
\* were deposited, a cell is saturated, and the other order gives another grid
C2_Witness ==
    /\ AfterAddPaint
    /\ Len(last.positions) = 2
    /\ OnWall(last.positions[1]) /\ OnWall(last.positions[2])
    /\ world_to_texture(wall, last.positions[1]) # world_to_texture(wall, last.positions[2])
    /\ \E c \in DOMAIN paint_coverage : paint_coverage[c] = F32One
    /\ add_paint(last.before, wall, <<last.positions[2], last.positions[1]>>,
                 last.intensity) # paint_coverage

\* the deposit the claim states for offset (dx, dy), written out: the intensity at
\* the centre, 0.3 * 1/2 of it at distance 1, 0.3 * (1 - sqrt(2)/2) of it at
\* distance sqrt 2, nothing at distance 2 and beyond
C3_Amount(intensity, dx, dy) ==
    CASE dx = 0 /\ dy = 0             -> intensity
      [] Abs(dx) + Abs(dy) = 1        -> <<3 * intensity[1], 20 * intensity[2]>>
      [] Abs(dx) = 1 /\ Abs(dy) = 1   -> <<3 * 114243 * intensity[1],
                                           10 * 390050 * intensity[2]>>
      [] OTHER                        -> <<0, 1>>

\* C3_Amount as a float32, tabulated
C3_AmountF32 ==
    [k \in Intensities \X Offsets |->
        F32FromRational(C3_Amount(k[1], k[2][1], k[2][2])[1],
                        C3_Amount(k[1], k[2][1], k[2][2])[2])] @@ << >>

\* C3: after add_paint with one hit point on the wall plane, mapped to cell (x, y):
\* the primary cell is min(1, old + intensity), every in-grid cell (x+dx, y+dy),
\* |dx|, |dy| <= 2, is min(1, old + intensity * 0.3 * max(0, 1 - dist/2)), and every
\* other cell is unchanged; neighbours outside the grid are skipped.
C3_SingleHitDeposit ==
    (AfterAddPaint /\ Len(last.positions) = 1 /\ OnWall(last.positions[1])) =>
        LET t == world_to_texture(wall, last.positions[1])
        IN  \A c \in Cells(wall) :
               LET dx == c[2] - t[1]
                   dy == c[1] - t[2]
                   old == Cov(last.before, c[1], c[2])
               IN  Cov(paint_coverage, c[1], c[2]) =
                      IF Abs(dx) <= 2 /\ Abs(dy) <= 2
                      THEN Min(F32One,
                               F32Round(old + C3_AmountF32[<<last.intensity, <<dx, dy>>>>]))
                      ELSE old

\* C3 witness: one hit was deposited at a corner cell, part of whose neighbourhood
\* is outside the grid, on a grid that already held paint
C3_Witness ==
    /\ AfterAddPaint /\ Len(last.positions) = 1 /\ OnWall(last.positions[1])
    /\ world_to_texture(wall, last.positions[1]) = <<0, 0>>
    /\ last.before # ZeroCoverage
    /\ Cov(paint_coverage, 1, 1) > Cov(last.before, 1, 1)
    /\ paint_coverage # last.before


-----------------------------------------------------------------------------
(* The texture driver: a caller that, like add_paint (line 79), asks a WallMesh  *)
(* for the cell of a world position, on and far off the wall.                    *)

\* how many wall widths (heights) beyond the centre the positions reach
TextureReach == 1

\* the simulator's wall, the wall of the deposit driver and a one-cell wall
TextureWalls ==
    { DefaultWall,
      [width |-> 4000, height |-> 3000, resolution |-> DepositRes],
      [width |-> 2000, height |-> 1000, resolution |-> 1] }

\* coordinates along an axis of length len: every quarter of the length out to
\* TextureReach lengths on both sides, each with its two neighbours at 0.001
WorldCoords(len) ==
    { s * k * (len \div 4) + e : s \in {-1, 1}, k \in 0..(4 * TextureReach), e \in {-1, 0, 1} }

WorldPoints(w) ==
    { Point(x, y, 0) : x \in WorldCoords(w.width), y \in WorldCoords(w.height) }

InitTexture ==
    /\ pc = "texture"
    /\ wall \in TextureWalls
    /\ paint_coverage = ZeroCoverage
    /\ params = [paint_intensity |-> <<0, 1>>]
    /\ nozzle_position = <<0, 0, 0>>
    /\ spray_direction = <<0, 0, 0>>
    /\ positions = NoParticles
    /\ velocities = NoParticles
    /\ active = NoParticles
    /\ hit_wall = NoParticles
    /\ step = 0
    /\ sub = 0
    /\ moves = 0
    /\ calls = 0
    /\ last = [op |-> "init"]

\* one call on a fresh wall (the function reads the wall and changes nothing, so a
\* second call would see the same state)
WorldToTextureCall ==
    /\ pc = "texture"
    /\ calls = 0
    /\ \E pos \in WorldPoints(wall) :
          last' = [op |-> "world_to_texture", pos |-> pos,
                   result |-> world_to_texture(wall, pos)]
    /\ calls' = 1
    /\ UNCHANGED <<pc, wall, paint_coverage, params, nozzle_position, spray_direction,
                   positions, velocities, active, hit_wall, step, sub, moves>>

NextTexture == WorldToTextureCall

SpecTexture == InitTexture /\ [][NextTexture]_vars

\* C11: world_to_texture returns, for every world position, indices x and y in
\* 0 .. resolution - 1; a position left of or below the wall maps to index 0 on
\* that axis, and one on or beyond the right or top edge to resolution - 1.
C11_TextureInRange ==
    last.op = "world_to_texture" =>
        LET px  == FloorScaled(last.pos[1], 2000)
            py  == FloorScaled(last.pos[2], 2000)
            pxr == FloorScaled(last.pos[1], 2000 * wall.resolution)
            x   == last.result[1]
            y   == last.result[2]
        IN  /\ x \in 0..(wall.resolution - 1)
            /\ y \in 0..(wall.resolution - 1)
            /\ px < -wall.width => x = 0
            /\ px >= wall.width => x = wall.resolution - 1
            /\ py < -wall.height => y = 0
            /\ py >= wall.height => y = wall.resolution - 1
            /\ (px >= -wall.width /\ px < wall.width) =>
                  /\ x * 2 * wall.width <= pxr + wall.width * wall.resolution
                  /\ pxr + wall.width * wall.resolution < (x + 1) * 2 * wall.width

\* C11 witness: a position a whole width left of the wall and exactly on its top
\* edge was mapped on the 128 x 128 grid, to the top-left border cell
C11_Witness ==
    /\ last.op = "world_to_texture"
    /\ wall = DefaultWall
    /\ last.pos[1] = FpFromMillis(-wall.width)
    /\ FpAdd(last.pos[2], last.pos[2]) = FpFromMillis(wall.height)
    /\ last.result = << 0, wall.resolution - 1 >>

-----------------------------------------------------------------------------
(***************************************************************************)
(* float64: the nozzle position is a numpy float64 array and move_nozzle   *)
(* works on it with Python floats.  A float64 v (v = 0, or 2^-17 <= |v| <  *)
(* 2^14) is the record [neg, mag]: mag is |v| * 2^70 written as twelve     *)
(* base-2^14 digits, least significant first.  Every float64 of that range *)
(* is a multiple of 2^-70, and F64Round is the IEEE round-to-nearest-even  *)
(* to 53 significant bits, so the sums and products below are the ones     *)
(* the interpreter computes, bit for bit.                                  *)
(***************************************************************************)
Limb == 2^14

Limbs == 1..12

\* digits of the binary point: mag[FracLimbs + 1] is the units digit
FracLimbs == 5

BigZero == [i \in Limbs |-> 0]

\* the carry into digit i when the digit vector d, digits in 0..2*Limb-2, is
\* brought back to digits in 0..Limb-1: a digit below i overflows and every digit
\* between passes the carry on
CarryIn(d, i) ==
    IF \E j \in 1..(i - 1) : d[j] >= Limb /\ \A k \in (j + 1)..(i - 1) : d[k] = Limb - 1
    THEN 1 ELSE 0

\* the borrow from digit i when d has digits in -(Limb-1)..Limb-1
BorrowOut(d, i) ==
    IF \E j \in 1..(i - 1) : d[j] < 0 /\ \A k \in (j + 1)..(i - 1) : d[k] = 0
    THEN 1 ELSE 0

BigAdd(a, b) ==
    LET d == [i \in Limbs |-> a[i] + b[i]]
    IN  [i \in Limbs |-> (d[i] + CarryIn(d, i)) % Limb]

\* a - b for a >= b
BigSub(a, b) ==
    LET d == [i \in Limbs |-> a[i] - b[i]]
    IN  [i \in Limbs |-> (d[i] - BorrowOut(d, i)) % Limb]

BigLess(a, b) ==
    \E i \in Limbs : a[i] < b[i] /\ \A j \in Limbs : j > i => a[j] = b[j]

\* the digit vector d, digits in 0..2^31-1, with every carry propagated: each digit
\* is split in three base-Limb digits, which are added in their places
Digits(d) ==
    LET at(v, i) == IF i \in Limbs THEN v[i] ELSE 0
        lo  == [i \in Limbs |-> d[i] % Limb]
        mid == [i \in Limbs |-> (at(d, i - 1) \div Limb) % Limb]
        hi  == [i \in Limbs |-> at(d, i - 2) \div (Limb * Limb)]
    IN  BigAdd(BigAdd(lo, mid), hi)

\* one term of digit k of a product
Term(a, b, k, i) == IF i <= k /\ a[i] # 0 THEN a[i] * b[k + 1 - i] ELSE 0

\* digit k of the product before carries, for a of at most six digits
Column(a, b, k) ==
    Term(a, b, k, 1) + Term(a, b, k, 2) + Term(a, b, k, 3)
        + Term(a, b, k, 4) + Term(a, b, k, 5) + Term(a, b, k, 6)

\* a * b, for a and b of at most six digits each
BigMul(a, b) == Digits([k \in Limbs |-> Column(a, b, k)])

\* a * n for 0 <= n < 2^16
BigMulSmall(a, n) == Digits([i \in Limbs |-> a[i] * n])

\* long division of a by n, 0 < n < 2^16, from the top digit down: the remainder
\* left after the digits 12 .. i
RECURSIVE BigRem(_, _, _)
BigRem(a, n, i) ==
    IF \A j \in Limbs : j >= i => a[j] = 0 THEN 0
    ELSE (BigRem(a, n, i + 1) * Limb + a[i]) % n

\* <<a \div n, a % n>>
BigDivSmall(a, n) ==
    << [i \in Limbs |-> (BigRem(a, n, i + 1) * Limb + a[i]) \div n], BigRem(a, n, 1) >>

\* 2^k
BigPow2(k) == [i \in Limbs |-> IF i = k \div 14 + 1 THEN 2^(k % 14) ELSE 0]

\* number of significant bits
BigBitLen(a) ==
    IF a = BigZero THEN 0
    ELSE LET top == CHOOSE i \in Limbs : a[i] # 0 /\ \A j \in Limbs : j > i => a[j] = 0
         IN  14 * (top - 1) + (CHOOSE k \in 1..14 : 2^(k - 1) <= a[top] /\ a[top] < 2^k)

\* m (plus a non-zero fraction below its last digit, if sticky) rounded to `bits`
\* significant bits, round-half-to-even
BigRound(m, sticky, bits) ==
    IF BigBitLen(m) <= bits THEN m
    ELSE LET k  == BigBitLen(m) - bits
             p  == k \div 14 + 1
             t  == 2^(k % 14)
             h  == BigAdd(m, BigPow2(k - 1))
             tr == [i \in Limbs |-> IF i < p THEN 0
                                    ELSE IF i = p THEN h[i] - (h[i] % t) ELSE h[i]]
         IN  IF /\ ~sticky
                /\ \A i \in Limbs : i < p => h[i] = 0
                /\ h[p] % t = 0
                /\ (h[p] \div t) % 2 = 1
             THEN BigSub(tr, BigPow2(k))
             ELSE tr

\* rounded to the 53 significant bits of a float64
F64Round(m, sticky) == BigRound(m, sticky, 53)

\* the float64 nearest to k / 1000
F64Nearest(k) ==
    LET qr == BigDivSmall([i \in Limbs |-> IF i = FracLimbs + 1 THEN Abs(k) % Limb
                                           ELSE IF i = FracLimbs + 2 THEN Abs(k) \div Limb
                                           ELSE 0],
                          1000)
    IN  [neg |-> k < 0, mag |-> F64Round(qr[1], qr[2] # 0)]

\* the literals of move_nozzle and the time steps, converted once
Literals == { 100 * j : j \in -18..18 }

F64Literal == [k \in Literals |-> F64Nearest(k)]

\* what the literal k / 1000 (1.8, 0.4, 0.1 ...) denotes
F64FromMillis(k) == IF k \in Literals THEN F64Literal[k] ELSE F64Nearest(k)

F64Zero == [neg |-> FALSE, mag |-> BigZero]

\* a + b
F64Add(a, b) ==
    IF a.neg = b.neg THEN [neg |-> a.neg, mag |-> F64Round(BigAdd(a.mag, b.mag), FALSE)]
    ELSE IF a.mag = b.mag THEN [neg |-> FALSE, mag |-> BigZero]
    ELSE IF BigLess(a.mag, b.mag)
         THEN [neg |-> b.neg, mag |-> F64Round(BigSub(b.mag, a.mag), FALSE)]
         ELSE [neg |-> a.neg, mag |-> F64Round(BigSub(a.mag, b.mag), FALSE)]

\* a * b: the exact product has 2 * FracLimbs fraction digits
F64Mul(a, b) ==
    LET r == F64Round(BigMul(a.mag, b.mag), FALSE)
        m == [i \in Limbs |-> IF i + FracLimbs <= 12 THEN r[i + FracLimbs] ELSE 0]
    IN  [neg |-> a.neg # b.neg /\ m # BigZero, mag |-> m]

\* a > b
F64Gt(a, b) ==
    IF a.neg /\ b.neg THEN BigLess(a.mag, b.mag)
    ELSE IF a.neg THEN FALSE
    ELSE IF b.neg THEN a.mag # BigZero \/ b.mag # BigZero
    ELSE BigLess(b.mag, a.mag)

\* digit i of a, 0 beyond the last
BigDigit(a, i) == IF i \in Limbs THEN a[i] ELSE 0

\* a float64 converted to float32 (wp.vec3 of a float64 array): rounded to 24
\* significant bits, which are then read off the digits
FpFromF64(a) ==
    LET r == BigRound(a.mag, FALSE, 24)
        k == BigBitLen(r) - 24
        p == k \div 14
        t == Pow2[k % 14]
        m == IF k <= 0 THEN r[1] + Limb * r[2]
             ELSE BigDigit(r, p + 1) \div t + BigDigit(r, p + 2) * (Limb \div t)
                      + BigDigit(r, p + 3) * ((Limb * Limb) \div t)
    IN  FpRound(IF a.neg THEN -m ELSE m, (IF k <= 0 THEN 0 ELSE k) - 14 * FracLimbs, FALSE)

-----------------------------------------------------------------------------
(* SprayParameters and SpraySimulator.__init__ *)

\* SprayParameters.__init__: the defaults (spray_density is a bound of the model)
DefaultParameters(density) ==
    [spray_width |-> 500, spray_range |-> 2000, spray_density |-> density,
     paint_intensity |-> <<3, 20>>, nozzle_distance |-> 800, fan_angle |-> 25]

\* main.py, configure_spray_parameters: the values it overrides
ConfiguredParameters(density) ==
    [spray_width |-> 400, spray_range |-> 2000, spray_density |-> density,
     paint_intensity |-> <<3, 20>>, nozzle_distance |-> 600, fan_angle |-> 20]

\* self.nozzle_position = np.array([-1.8, -1.2, nozzle_distance]) (float64)
InitialNozzle(p) ==
    << F64FromMillis(-1800), F64FromMillis(-1200), F64FromMillis(p.nozzle_distance) >>

\* self.spray_direction = [0.0, 0.0, -1.0]
InitialDirection == << 0, 0, -1000 >>

\* wp.zeros(max_particles): positions and velocities (0, 0, 0), flags 0
ZeroVectors(n) == [i \in 1..n |-> << FpZero, FpZero, FpZero >>]

ZeroFlags(n) == [i \in 1..n |-> 0]

-----------------------------------------------------------------------------
(* SpraySimulator.move_nozzle *)

\* speed = 0.8 units per second
NozzleSpeed == 800

RightBound == 1800

LeftBound == -1800

RowStep == 400

TopBound == 1200

BottomBound == -1200

\* mutant of move_nozzle: the overshoot beyond the right edge is kept after the wrap
move_nozzle_overshoot(np, dt) ==
    LET x1 == F64Add(np[1], F64Mul(F64FromMillis(NozzleSpeed), F64FromMillis(dt)))
        wrap == F64Gt(x1, F64FromMillis(RightBound))
        x2 == IF wrap THEN F64Add(x1, F64FromMillis(2 * LeftBound)) ELSE x1
        y2 == IF wrap THEN F64Add(np[2], F64FromMillis(RowStep)) ELSE np[2]
    IN  << x2,
           IF F64Gt(y2, F64FromMillis(TopBound)) THEN F64FromMillis(BottomBound) ELSE y2,
           np[3] >>

\* move_nozzle(dt): the nozzle position after the call (dt in ms)
move_nozzle(np, dt) ==
    LET x1 == F64Add(np[1], F64Mul(F64FromMillis(NozzleSpeed), F64FromMillis(dt)))
        wrap == F64Gt(x1, F64FromMillis(RightBound))
        x2 == IF wrap THEN F64FromMillis(LeftBound) ELSE x1
        y2 == IF wrap THEN F64Add(np[2], F64FromMillis(RowStep)) ELSE np[2]
    IN  << x2,
           IF F64Gt(y2, F64FromMillis(TopBound)) THEN F64FromMillis(BottomBound) ELSE y2,
           np[3] >>

-----------------------------------------------------------------------------
(* The nozzle driver: a constructed simulator whose move_nozzle is called *)

\* time steps passed to move_nozzle (ms): run_simulation's 0.1 s, and 0.5 s
NozzleDts == {100, 500}

InitNozzle ==
    /\ pc = "nozzle"
    /\ wall = DefaultWall
    /\ paint_coverage = ZeroCoverage
    /\ \E p \in {DefaultParameters(0), ConfiguredParameters(0)} :
          /\ params = p
          /\ nozzle_position = InitialNozzle(p)
    /\ spray_direction = InitialDirection
    /\ positions = NoParticles
    /\ velocities = NoParticles
    /\ active = NoParticles
    /\ hit_wall = NoParticles
    /\ step = 0
    /\ sub = 0
    /\ moves = 0
    /\ calls = 0
    /\ last = [op |-> "init"]

MoveNozzleCall ==
    /\ pc = "nozzle"
    /\ \E dt \in NozzleDts :
          /\ nozzle_position' = move_nozzle(nozzle_position, dt)
          /\ last' = [op |-> "move_nozzle", dt |-> dt, before |-> nozzle_position]
    /\ UNCHANGED <<pc, wall, paint_coverage, params, spray_direction, positions,
                   velocities, active, hit_wall, step, sub, moves, calls>>

NextNozzle == MoveNozzleCall

SpecNozzle == InitNozzle /\ [][NextNozzle]_vars

\* the float64 of a decimal literal given in thousandths
Lit(k) == F64FromMillis(k)

\* C4: one move_nozzle call adds speed*dt to x; if that x exceeds the right bound,
\* x becomes the left bound and y grows by the row step once; y changes in no call
\* in which x does not wrap; a y beyond the top bound becomes the bottom bound; z
\* and the spray direction never change.
C4_NozzleWrap ==
    /\ spray_direction = <<0, 0, -1000>>
    /\ nozzle_position[3] = Lit(params.nozzle_distance)
    /\ last.op = "move_nozzle" =>
          LET x1 == F64Add(last.before[1], F64Mul(Lit(800), Lit(last.dt)))
              wrapped == F64Gt(x1, Lit(1800))
              y1 == F64Add(last.before[2], Lit(400))
          IN  /\ nozzle_position[1] = IF wrapped THEN Lit(-1800) ELSE x1
              /\ ~wrapped => nozzle_position[2] = last.before[2]
              /\ wrapped => nozzle_position[2] =
                               IF F64Gt(y1, Lit(1200)) THEN Lit(-1200) ELSE y1

\* C4 witness: a call wrapped x in the last row, so y wrapped to the bottom
C4_Witness ==
    /\ last.op = "move_nozzle"
    /\ F64Gt(last.before[2], Lit(0))
    /\ F64Gt(F64Add(last.before[2], Lit(400)), Lit(1200))
    /\ F64Gt(F64Add(last.before[1], F64Mul(Lit(800), Lit(last.dt))), Lit(1800))
    /\ nozzle_position[1] = Lit(-1800)
    /\ nozzle_position[2] = Lit(-1200)

-----------------------------------------------------------------------------
(***************************************************************************)
(* The particle kernels.  Warp vectors and floats are float32: positions   *)
(* and velocities are triples of float32 values, and every sum, product,   *)
(* quotient and square root is rounded as the kernel rounds it.            *)
(***************************************************************************)

\* particles of the batch (spray_density)
MaxParticles == 1

Tids == 1..MaxParticles

\* spray speed passed to the emission kernel: 8.0
SpraySpeed == 8000

\* wall z position passed to the update kernel: 0.0
WallZ == 0

\* new_pos[2] < wall_z - 0.5
BelowLimit == 500

\* wp.length(new_pos) > 10.0
DistanceLimit == 10000

\* the two limits as float32
BelowLimitF32 == FpFromMillis(BelowLimit)

DistanceLimitF32 == FpFromMillis(DistanceLimit)

\* start-position offsets are drawn by wp.randf(rng, -0.1, 0.1)
OffsetRange == 100

\* the float32 0.5
FpHalf == << Pow2[23], -24 >>

\* samples of wp.randf(rng), a multiple of 2^-24 in [0, 1): 0 and 1 - 2^-24
RandUnitEnds == { FpZero, << Pow2[24] - 1, -24 >> }

\* samples of wp.randf(rng): 0, 1/2 and 1 - 2^-24
RandUnit == RandUnitEnds \cup { FpHalf }

\* wp.randf(rng, lo, hi) for the unit sample u: (hi - lo) * u + lo
randf_range(lo, hi, u) == FpAdd(FpMul(FpSub(hi, lo), u), lo)

\* samples of wp.randf(rng, lo, hi), a value of [lo, hi): the two ends
RandfEnds(lo, hi) == { randf_range(lo, hi, u) : u \in RandUnitEnds }

\* samples of wp.randf(rng, lo, hi): the two ends and the middle
Randf(lo, hi) == { randf_range(lo, hi, u) : u \in RandUnit }

\* the values the emission kernel draws for one particle.  It also draws an angle
\* from the fan angle, and computes its cosine and sine, but uses none of them:
\* the angle enters neither the position nor the velocity.
EmissionDraws(p) ==
    [spread_x : RandfEnds(FpNeg(FpFromMillis(p.spray_width)), FpFromMillis(p.spray_width)),
     spread_y : RandfEnds(FpNeg(FpFromMillis(p.spray_width)), FpFromMillis(p.spray_width)),
     offset_x : Randf(FpNeg(FpFromMillis(OffsetRange)), FpFromMillis(OffsetRange)),
     offset_y : Randf(FpNeg(FpFromMillis(OffsetRange)), FpFromMillis(OffsetRange))]

\* the draws of one particle sampled in a run: low spread with low offsets, high
\* spread with middle or high offsets
FrameDraws(p) ==
    { d \in EmissionDraws(p) :
         /\ d.spread_x = d.spread_y
         /\ d.offset_x = d.offset_y
         /\ FpLess(d.offset_x, FpZero) <=> FpLess(d.spread_x, FpZero) }

\* wp.dot(a, b)
Dot(a, b) == FpAdd(FpAdd(FpMul(a[1], b[1]), FpMul(a[2], b[2])), FpMul(a[3], b[3]))

\* wp.length(a)
Length(a) == FpSqrt(Dot(a, a))

\* wp.normalize(d) * speed: every component is divided by the length, then
\* multiplied by the speed; wp.normalize of the zero vector is zero
normalize_scaled(d, speed) ==
    LET l == Length(d)
    IN  IF l[1] = 0 THEN << FpZero, FpZero, FpZero >>
        ELSE << FpMul(FpDiv(d[1], l), speed), FpMul(FpDiv(d[2], l), speed),
                FpMul(FpDiv(d[3], l), speed) >>

\* mutant of spray_emission_kernel: the start offset is applied twice
spray_emission_kernel_wide(nozzle_pos, spray_dir, speed, draw) ==
    LET spread_x == FpMul(draw.spread_x, FpHalf)
        spread_y == FpMul(draw.spread_y, FpHalf)
        direction == << FpAdd(spray_dir[1], spread_x), FpAdd(spray_dir[2], spread_y),
                        spray_dir[3] >>
    IN  << << FpAdd(FpAdd(nozzle_pos[1], draw.offset_x), draw.offset_x),
              FpAdd(FpAdd(nozzle_pos[2], draw.offset_y), draw.offset_y), nozzle_pos[3] >>,
           normalize_scaled(direction, speed) >>

\* spray_emission_kernel for one thread: <<positions[tid], velocities[tid]>>.  The
\* draws are the values of wp.randf(rng, -spray_width, spray_width) (twice) and of
\* wp.randf(rng, -0.1, 0.1) (twice); right is (1, 0, 0) and up is (0, 1, 0).
spray_emission_kernel(nozzle_pos, spray_dir, speed, draw) ==
    LET spread_x == FpMul(draw.spread_x, FpHalf)
        spread_y == FpMul(draw.spread_y, FpHalf)
        direction == << FpAdd(spray_dir[1], spread_x), FpAdd(spray_dir[2], spread_y),
                        spray_dir[3] >>
    IN  << << FpAdd(nozzle_pos[1], draw.offset_x), FpAdd(nozzle_pos[2], draw.offset_y),
              nozzle_pos[3] >>,
           normalize_scaled(direction, speed) >>

\* wp.vec3(self.nozzle_position): the float64 array as a float32 vector
NozzleVec3(np) == << FpFromF64(np[1]), FpFromF64(np[2]), FpFromF64(np[3]) >>

\* mutant of spray_update_kernel: the hit test does not look at the old position
spray_update_kernel_noold(pos, vel, act, hit, dt, wall_z) ==
    IF act = 0 THEN [pos |-> pos, act |-> act, hit |-> hit]
    ELSE CHOOSE res \in
             { IF FpLeq(new_pos[3], wall_z)
               THEN [pos |-> new_pos, act |-> 0, hit |-> 1]
               ELSE IF FpLess(new_pos[3], FpSub(wall_z, BelowLimitF32))
                       \/ FpLess(DistanceLimitF32, Length(new_pos))
                    THEN [pos |-> new_pos, act |-> 0, hit |-> hit]
                    ELSE [pos |-> new_pos, act |-> act, hit |-> hit]
               : new_pos \in { << FpAdd(pos[1], FpMul(vel[1], dt)),
                                 FpAdd(pos[2], FpMul(vel[2], dt)),
                                 FpAdd(pos[3], FpMul(vel[3], dt)) >> } } : TRUE

\* mutant of spray_update_kernel: inactive particles are not skipped
spray_update_kernel_noskip(pos, vel, act, hit, dt, wall_z) ==
    CHOOSE res \in
        { IF FpLess(wall_z, pos[3]) /\ FpLeq(new_pos[3], wall_z)
          THEN [pos |-> new_pos, act |-> 0, hit |-> 1]
          ELSE IF FpLess(new_pos[3], FpSub(wall_z, BelowLimitF32))
                  \/ FpLess(DistanceLimitF32, Length(new_pos))
               THEN [pos |-> new_pos, act |-> 0, hit |-> hit]
               ELSE [pos |-> new_pos, act |-> act, hit |-> hit]
          : new_pos \in { << FpAdd(pos[1], FpMul(vel[1], dt)),
                            FpAdd(pos[2], FpMul(vel[2], dt)),
                            FpAdd(pos[3], FpMul(vel[3], dt)) >> } } : TRUE

\* mutant of spray_update_kernel: the distance test looks at the old position
spray_update_kernel_late(pos, vel, act, hit, dt, wall_z) ==
    IF act = 0 THEN [pos |-> pos, act |-> act, hit |-> hit]
    ELSE CHOOSE res \in
             { IF FpLess(wall_z, pos[3]) /\ FpLeq(new_pos[3], wall_z)
               THEN [pos |-> new_pos, act |-> 0, hit |-> 1]
               ELSE IF FpLess(new_pos[3], FpSub(wall_z, BelowLimitF32))
                       \/ FpLess(DistanceLimitF32, Length(pos))
                    THEN [pos |-> new_pos, act |-> 0, hit |-> hit]
                    ELSE [pos |-> new_pos, act |-> act, hit |-> hit]
               : new_pos \in { << FpAdd(pos[1], FpMul(vel[1], dt)),
                                 FpAdd(pos[2], FpMul(vel[2], dt)),
                                 FpAdd(pos[3], FpMul(vel[3], dt)) >> } } : TRUE

\* mutant of spray_update_kernel: a particle that hits the wall stays active
spray_update_kernel_hit_active(pos, vel, act, hit, dt, wall_z) ==
    IF act = 0 THEN [pos |-> pos, act |-> act, hit |-> hit]
    ELSE CHOOSE res \in
             { IF FpLess(wall_z, pos[3]) /\ FpLeq(new_pos[3], wall_z)
               THEN [pos |-> new_pos, act |-> act, hit |-> 1]
               ELSE IF FpLess(new_pos[3], FpSub(wall_z, BelowLimitF32))
                       \/ FpLess(DistanceLimitF32, Length(new_pos))
                    THEN [pos |-> new_pos, act |-> 0, hit |-> hit]
                    ELSE [pos |-> new_pos, act |-> act, hit |-> hit]
               : new_pos \in { << FpAdd(pos[1], FpMul(vel[1], dt)),
                                 FpAdd(pos[2], FpMul(vel[2], dt)),
                                 FpAdd(pos[3], FpMul(vel[3], dt)) >> } } : TRUE

\* spray_update_kernel for one thread: the thread's position, active flag and hit
\* flag after the launch (dt and wall_z are float32); new_pos is
\* old_pos + velocities[tid] * dt
spray_update_kernel(pos, vel, act, hit, dt, wall_z) ==
    IF act = 0 THEN [pos |-> pos, act |-> act, hit |-> hit]
    ELSE CHOOSE res \in
             { IF FpLess(wall_z, pos[3]) /\ FpLeq(new_pos[3], wall_z)
               THEN [pos |-> new_pos, act |-> 0, hit |-> 1]
               ELSE IF FpLess(new_pos[3], FpSub(wall_z, BelowLimitF32))
                       \/ FpLess(DistanceLimitF32, Length(new_pos))
                    THEN [pos |-> new_pos, act |-> 0, hit |-> hit]
                    ELSE [pos |-> new_pos, act |-> act, hit |-> hit]
               : new_pos \in { << FpAdd(pos[1], FpMul(vel[1], dt)),
                                 FpAdd(pos[2], FpMul(vel[2], dt)),
                                 FpAdd(pos[3], FpMul(vel[3], dt)) >> } } : TRUE

\* mutant of emit_spray: the hit flags of the previous batch are not cleared
emit_spray_keep_hits(draws) ==
    LET nozzle_pos == NozzleVec3(nozzle_position)
        spray_dir == Point(spray_direction[1], spray_direction[2], spray_direction[3])
        e == [tid \in Tids |->
                 spray_emission_kernel(nozzle_pos, spray_dir, FpFromMillis(SpraySpeed),
                                       draws[tid])]
    IN  /\ active' = [tid \in Tids |-> 1]
        /\ hit_wall' = hit_wall
        /\ positions' = [tid \in Tids |-> e[tid][1]]
        /\ velocities' = [tid \in Tids |-> e[tid][2]]

\* emit_spray: the flags are reset and every thread emits its particle
emit_spray(draws) ==
    LET nozzle_pos == NozzleVec3(nozzle_position)
        spray_dir == Point(spray_direction[1], spray_direction[2], spray_direction[3])
        e == [tid \in Tids |->
                 spray_emission_kernel(nozzle_pos, spray_dir, FpFromMillis(SpraySpeed),
                                       draws[tid])]
    IN  /\ active' = [tid \in Tids |-> 1]
        /\ hit_wall' = [tid \in Tids |-> 0]
        /\ positions' = [tid \in Tids |-> e[tid][1]]
        /\ velocities' = [tid \in Tids |-> e[tid][2]]

\* update_particles(dt), dt in ms: one launch of the update kernel over all threads
update_particles(dt) ==
    \E dt32 \in { FpFromMillis(dt) }, wall_z \in { FpFromMillis(WallZ) } :
        \E r \in { [tid \in Tids |->
                        spray_update_kernel(positions[tid], velocities[tid], active[tid],
                                            hit_wall[tid], dt32, wall_z)] } :
            /\ positions' = [tid \in Tids |-> r[tid].pos]
            /\ active' = [tid \in Tids |-> r[tid].act]
            /\ hit_wall' = [tid \in Tids |-> r[tid].hit]
            /\ UNCHANGED velocities

-----------------------------------------------------------------------------
(***************************************************************************)
(* The kernel driver: a simulator is constructed, its nozzle is placed and *)
(* aimed, one batch is emitted and update_particles is called repeatedly,  *)
(* with the same time step in every call, as run_simulation does.          *)
(***************************************************************************)

\* the simulators driven: parameters, nozzle x and y, spray direction
KernelSetups ==
    { \* no spread, nozzle centred on the wall and aimed at it
      [spray_width |-> 0, fan_angle |-> 0, nozzle_distance |-> 800, dir |-> <<0, 0, -1000>>],
      \* with spread
      [spray_width |-> 400, fan_angle |-> 20, nozzle_distance |-> 600, dir |-> <<0, 0, -1000>>],
      \* aimed away from the wall
      [spray_width |-> 0, fan_angle |-> 0, nozzle_distance |-> 9600, dir |-> <<0, 0, 1000>>],
      \* nozzle behind the wall plane, aimed back through it
      [spray_width |-> 0, fan_angle |-> 0, nozzle_distance |-> -400, dir |-> <<0, 0, 1000>>],
      \* nozzle on the wall plane
      [spray_width |-> 0, fan_angle |-> 0, nozzle_distance |-> 0, dir |-> <<0, 0, -1000>>],
      \* nozzle farther from the wall than the distance limit
      [spray_width |-> 0, fan_angle |-> 0, nozzle_distance |-> 12000, dir |-> <<0, 0, -1000>>],
      \* nozzle just in front of the wall
      [spray_width |-> 0, fan_angle |-> 0, nozzle_distance |-> 1, dir |-> <<0, 0, -1000>>],
      \* the farthest nozzle from which every particle is within the distance limit
      \* after its first sub-step, and the next one
      [spray_width |-> 0, fan_angle |-> 0, nozzle_distance |-> 10150, dir |-> <<0, 0, -1000>>],
      [spray_width |-> 0, fan_angle |-> 0, nozzle_distance |-> 10160, dir |-> <<0, 0, -1000>>] }

\* time steps passed to update_particles (ms): run_simulation's dt / 5.0, and dt
KernelDts == {20, 100}

\* the draws of one emit_spray call: every sampled draw for the first thread, the
\* paired draws of a run for the other threads
KernelDraws(p) ==
    { d \in [Tids -> EmissionDraws(p)] :
         \A tid \in Tids : tid > 1 => d[tid] \in FrameDraws(p) }

InitKernel ==
    /\ pc = "emit"
    /\ wall = DefaultWall
    /\ paint_coverage = ZeroCoverage
    /\ \E s \in KernelSetups :
          /\ params = [DefaultParameters(MaxParticles) EXCEPT
                          !.spray_width = s.spray_width, !.fan_angle = s.fan_angle,
                          !.nozzle_distance = s.nozzle_distance]
          /\ nozzle_position = << F64Zero, F64Zero, F64FromMillis(s.nozzle_distance) >>
          /\ spray_direction = s.dir
    /\ positions = ZeroVectors(MaxParticles)
    /\ velocities = ZeroVectors(MaxParticles)
    /\ active = ZeroFlags(MaxParticles)
    /\ hit_wall = ZeroFlags(MaxParticles)
    /\ step = 0
    /\ sub = 0
    /\ moves = 0
    /\ calls = 0
    /\ last = [op |-> "init"]

EmitCall ==
    /\ pc = "emit"
    /\ \E draws \in KernelDraws(params) :
          /\ emit_spray(draws)
          /\ last' = [op |-> "emit_spray", nozzle |-> nozzle_position]
    /\ pc' = "update"
    /\ UNCHANGED <<wall, paint_coverage, params, nozzle_position, spray_direction,
                   step, sub, moves, calls>>

UpdateCall ==
    /\ pc = "update"
    /\ \E dt \in KernelDts :
          /\ last.op = "update_particles" => dt = last.dt
          /\ update_particles(dt)
          /\ last' = [op |-> "update_particles", dt |-> dt, positions |-> positions,
                      velocities |-> velocities, active |-> active,
                      hit_wall |-> hit_wall]
    /\ UNCHANGED <<pc, wall, paint_coverage, params, nozzle_position, spray_direction,
                   step, sub, moves, calls>>

NextKernel == EmitCall \/ UpdateCall

SpecKernel == InitKernel /\ [][NextKernel]_vars

\* update_particles is called again and again
SpecKernelFair == SpecKernel /\ WF_vars(UpdateCall)

-----------------------------------------------------------------------------
(* Properties of the kernels (SpecKernel, SpecKernelFair) *)

AfterUpdate == last.op = "update_particles"

\* C5: in one update sub-step a particle that was active is recorded as a hit and
\* deactivated exactly when its z was strictly above the wall plane before the
\* sub-step and is on or below it after; a particle on or below the plane before
\* the sub-step is not recorded as a hit by it.
C5_CollisionRule ==
    AfterUpdate =>
        \A tid \in Tids :
            /\ last.active[tid] = 1 =>
                  ((hit_wall[tid] = 1 /\ active[tid] = 0)
                      <=> (FpLess(FpZero, last.positions[tid][3])
                              /\ FpLeq(positions[tid][3], FpZero)))
            /\ FpLeq(last.positions[tid][3], FpZero) => hit_wall[tid] = last.hit_wall[tid]

\* C5 witness: a sub-step took an active particle from above the plane to exactly
\* z = 0 and recorded the hit
C5_Witness ==
    /\ AfterUpdate
    /\ \E tid \in Tids :
          /\ last.active[tid] = 1
          /\ FpLess(FpZero, last.positions[tid][3])
          /\ positions[tid][3] = FpZero
          /\ hit_wall[tid] = 1
          /\ active[tid] = 0

\* C6: an update sub-step leaves an inactive particle's position, velocity, active
\* flag and hit flag unchanged; it activates no particle and clears no hit flag; a
\* particle with its hit flag set is inactive.
C6_TerminalStates ==
    /\ \A tid \in Tids : hit_wall[tid] = 1 => active[tid] = 0
    /\ AfterUpdate =>
          \A tid \in Tids :
              /\ last.active[tid] = 0 =>
                    /\ positions[tid] = last.positions[tid]
                    /\ velocities[tid] = last.velocities[tid]
                    /\ active[tid] = 0
                    /\ hit_wall[tid] = last.hit_wall[tid]
              /\ active[tid] = 1 => last.active[tid] = 1
              /\ last.hit_wall[tid] = 1 => hit_wall[tid] = 1

\* C6 witness: a sub-step ran over a particle that had already hit the wall
C6_Witness ==
    /\ AfterUpdate
    /\ \E tid \in Tids :
          /\ last.active[tid] = 0
          /\ last.hit_wall[tid] = 1
          /\ FpLess(velocities[tid][3], FpZero)
          /\ positions[tid] = last.positions[tid]

\* the nozzle is centred on the wall, in front of it, aimed straight at it, and the
\* emitter has no spread
ZeroSpreadCentred ==
    /\ params.spray_width = 0
    /\ params.fan_angle = 0
    /\ nozzle_position[1] = F64Zero
    /\ nozzle_position[2] = F64Zero
    /\ F64Gt(nozzle_position[3], F64Zero)
    /\ spray_direction = <<0, 0, -1000>>

\* 10.15: from there the first sub-step (at least 8.0 * 0.02 towards the wall)
\* leaves z at most 9.99, so that with the largest start offsets the length of the
\* position is below the distance limit; from 10.16 it is not
NozzleInReach == F64FromMillis(10150)

\* C9 (as claimed): the zero-spread particle of a centred nozzle is recorded as a
\* hit, and its cell is within one cell of (64, 64).
C9_CentredHitWithinOneCell ==
    /\ [](\A tid \in Tids :
             (ZeroSpreadCentred /\ hit_wall[tid] = 1) =>
                 /\ Abs(world_to_texture(wall, positions[tid])[1] - 64) <= 1
                 /\ Abs(world_to_texture(wall, positions[tid])[2] - 64) <= 1)
    /\ \A tid \in Tids : (ZeroSpreadCentred /\ pc = "update") ~> (hit_wall[tid] = 1)

\* C9 (amended): the cell of the hit is within 60..67 in x and 59..68 in y; the
\* particle is recorded as a hit under repeated sub-steps (of 0.02 s or 0.1 s),
\* whatever its start offsets, when the nozzle z is positive as a float32 and at
\* most 10.15.
C9_CentredHitNearCentre ==
    /\ [](\A tid \in Tids :
             (ZeroSpreadCentred /\ hit_wall[tid] = 1) =>
                 /\ world_to_texture(wall, positions[tid])[1] \in 60..67
                 /\ world_to_texture(wall, positions[tid])[2] \in 59..68)
    /\ \A tid \in Tids :
          (/\ ZeroSpreadCentred
           /\ pc = "update"
           /\ FpLess(FpZero, NozzleVec3(nozzle_position)[3])
           /\ ~F64Gt(nozzle_position[3], NozzleInReach))
              ~> (hit_wall[tid] = 1)

\* C9 witness: a zero-spread particle of the centred nozzle at z = 10.15 hit the
\* wall in cell (60, 59), four cells left of and five below (64, 64)
C9_Witness ==
    /\ ZeroSpreadCentred
    /\ nozzle_position[3] = NozzleInReach
    /\ \E tid \in Tids :
          /\ hit_wall[tid] = 1
          /\ world_to_texture(wall, positions[tid]) = <<60, 59>>

\* the particle was emitted above the wall plane and moves away from it
MovesAway(tid) ==
    /\ pc = "update"
    /\ F64Gt(nozzle_position[3], F64Zero)
    /\ FpLess(FpZero, velocities[tid][3])

\* the float32 length of the position exceeds 10.0
BeyondLimit(pos) == FpLess(FpFromMillis(10000), Length(pos))

\* C10: a particle emitted above the wall plane with vz > 0 never has its hit flag
\* set; a sub-step deactivates it exactly when its distance from the origin (the
\* float32 length of its position) exceeds 10.0 after the sub-step; under repeated
\* sub-steps it is eventually inactive.
C10_AwayParticlePruned ==
    /\ [](\A tid \in Tids :
             MovesAway(tid) =>
                 /\ hit_wall[tid] = 0
                 /\ (AfterUpdate /\ last.active[tid] = 1) =>
                        (active[tid] = 0 <=> BeyondLimit(positions[tid])))
    /\ \A tid \in Tids : MovesAway(tid) ~> (active[tid] = 0)

\* C10 witness: a particle moving away from the wall was deactivated, without a hit,
\* by the sub-step that took it farther than 10.0 from the origin
C10_Witness ==
    /\ AfterUpdate
    /\ \E tid \in Tids :
          /\ MovesAway(tid)
          /\ last.active[tid] = 1
          /\ ~BeyondLimit(last.positions[tid])
          /\ FloorScaled(last.positions[tid][3], 1000) < 10000
          /\ BeyondLimit(positions[tid])
          /\ FloorScaled(positions[tid][3], 1000) >= 10000
          /\ active[tid] = 0
          /\ hit_wall[tid] = 0

-----------------------------------------------------------------------------
(***************************************************************************)
(* SpraySimulator.run_simulation: the frame loop.  File output (progress   *)
(* images, textures, USD scenes) reads the state and is left out.          *)
(***************************************************************************)

\* frames of a run: steps = int(duration / dt)
MaxFrames == 2

\* dt of run_simulation (ms): 0.1 s
FrameDt == 100

\* update_particles calls per frame: for _ in range(5), sub_dt = dt / 5.0
SubSteps == 5

\* mutant of FrameOrder: the nozzle is moved at the start of the frame
FrameOrderMoveFirst == << "move", "emit", "update", "collect" >>

\* the operations of the loop body, in program order
FrameOrder == << "emit", "update", "collect", "move" >>

\* the position of the loop after the operation op of frame number step is complete
AfterOp(op) ==
    LET i == CHOOSE k \in 1..Len(FrameOrder) : FrameOrder[k] = op
    IN  IF i < Len(FrameOrder) THEN [pc |-> FrameOrder[i + 1], step |-> step]
        ELSE IF step + 1 < MaxFrames THEN [pc |-> FrameOrder[1], step |-> step + 1]
        ELSE [pc |-> "done", step |-> step + 1]

\* collect_paint_hits: the positions of the particles whose hit flag is set, in
\* thread order, projected onto the wall plane
RECURSIVE collect_paint_hits(_, _, _)
collect_paint_hits(pos, hit, i) ==
    IF i > Len(pos) THEN << >>
    ELSE (IF hit[i] = 1 THEN << << pos[i][1], pos[i][2], FpZero >> >> ELSE << >>)
            \o collect_paint_hits(pos, hit, i + 1)

Init ==
    /\ pc = FrameOrder[1]
    /\ wall = DefaultWall
    /\ paint_coverage = ZeroCoverage
    /\ \E p \in {DefaultParameters(MaxParticles), ConfiguredParameters(MaxParticles)} :
          /\ params = p
          /\ nozzle_position = InitialNozzle(p)
    /\ spray_direction = InitialDirection
    /\ positions = ZeroVectors(MaxParticles)
    /\ velocities = ZeroVectors(MaxParticles)
    /\ active = ZeroFlags(MaxParticles)
    /\ hit_wall = ZeroFlags(MaxParticles)
    /\ step = 0
    /\ sub = 0
    /\ moves = 0
    /\ calls = 0
    /\ last = [op |-> "init"]

\* self.emit_spray(step * 1000)
Emit ==
    /\ pc = "emit"
    /\ \E draws \in [Tids -> FrameDraws(params)] : emit_spray(draws)
    /\ last' = [op |-> "emit_spray", nozzle |-> nozzle_position, step |-> step]
    /\ pc' = AfterOp("emit").pc
    /\ step' = AfterOp("emit").step
    /\ sub' = 0
    /\ calls' = calls + 1
    /\ UNCHANGED <<wall, paint_coverage, params, nozzle_position, spray_direction, moves>>

\* one pass of: for _ in range(5): self.update_particles(sub_dt)
Update ==
    /\ pc = "update"
    /\ update_particles(FrameDt \div SubSteps)
    /\ last' = [op |-> "update_particles", dt |-> FrameDt \div SubSteps,
                positions |-> positions, velocities |-> velocities,
                active |-> active, hit_wall |-> hit_wall]
    /\ sub' = sub + 1
    /\ pc' = IF sub + 1 < SubSteps THEN pc ELSE AfterOp("update").pc
    /\ step' = IF sub + 1 < SubSteps THEN step ELSE AfterOp("update").step
    /\ UNCHANGED <<wall, paint_coverage, params, nozzle_position, spray_direction,
                   moves, calls>>

\* hit_positions = self.collect_paint_hits(); add_paint if there is any
Collect ==
    /\ pc = "collect"
    /\ LET hits == collect_paint_hits(positions, hit_wall, 1)
       IN  /\ paint_coverage' =
                 IF Len(hits) > 0
                 THEN add_paint(paint_coverage, wall, hits, params.paint_intensity)
                 ELSE paint_coverage
           /\ last' = [op |-> "collect_paint_hits", hits |-> hits,
                       before |-> paint_coverage, step |-> step]
    /\ pc' = AfterOp("collect").pc
    /\ step' = AfterOp("collect").step
    /\ UNCHANGED <<wall, params, nozzle_position, spray_direction, positions,
                   velocities, active, hit_wall, sub, moves, calls>>

\* self.move_nozzle(dt)
Move ==
    /\ pc = "move"
    /\ nozzle_position' = move_nozzle(nozzle_position, FrameDt)
    /\ last' = [op |-> "move_nozzle", dt |-> FrameDt, before |-> nozzle_position]
    /\ moves' = moves + 1
    /\ pc' = AfterOp("move").pc
    /\ step' = AfterOp("move").step
    /\ UNCHANGED <<wall, paint_coverage, params, spray_direction, positions,
                   velocities, active, hit_wall, sub, calls>>

Next == Emit \/ Update \/ Collect \/ Move

Spec == Init /\ [][Next]_vars

-----------------------------------------------------------------------------
(* Properties of the frame loop (Spec) *)

\* the nozzle position after k move_nozzle(dt) calls of a run
RECURSIVE NozzleAfter(_)
NozzleAfter(k) ==
    IF k = 0 THEN InitialNozzle(params) ELSE move_nozzle(NozzleAfter(k - 1), FrameDt)

\* every particle starts within the offset range (0.1, up to the rounding of the
\* sum: within 0.101) of the nozzle position n
EmittedFrom(n) ==
    \A tid \in Tids :
        /\ FloorScaled(FpSub(positions[tid][1], NozzleVec3(n)[1]), 1000)
              \in (-OffsetRange - 1)..OffsetRange
        /\ FloorScaled(FpSub(positions[tid][2], NozzleVec3(n)[2]), 1000)
              \in (-OffsetRange - 1)..OffsetRange
        /\ positions[tid][3] = NozzleVec3(n)[3]

\* C8 (as claimed): in every frame the nozzle is advanced before the emission, so
\* the particles of frame f start from the nozzle position after f + 1 advances.
C8_SchedulerFirst ==
    last.op = "emit_spray" =>
        /\ moves = last.step + 1
        /\ EmittedFrom(NozzleAfter(last.step + 1))

\* C8 (amended): in every frame the emitter fills the batch from the current nozzle
\* position, then five sub-steps of dt / 5 run, then the hits of the frame are
\* deposited, and the nozzle is advanced last; the particles of frame f start from
\* the nozzle position after f advances.
C8_EmitterFirst ==
    /\ pc = "emit" => (calls = step /\ moves = step)
    /\ pc = "update" => (calls = step + 1 /\ moves = step /\ sub < SubSteps
                          /\ last.op \in {"emit_spray", "update_particles"})
    /\ pc = "collect" => (calls = step + 1 /\ moves = step /\ sub = SubSteps
                           /\ last.op = "update_particles")
    /\ pc = "move" => (calls = step + 1 /\ moves = step /\ sub = SubSteps
                        /\ last.op = "collect_paint_hits")
    /\ pc = "done" => (calls = step /\ moves = step /\ step = MaxFrames)
    /\ last.op = "emit_spray" =>
          /\ moves = last.step
          /\ last.nozzle = NozzleAfter(last.step)
          /\ EmittedFrom(last.nozzle)
    /\ last.op = "update_particles" => last.dt = 20
    /\ last.op = "collect_paint_hits" =>
          /\ last.hits = collect_paint_hits(positions, hit_wall, 1)
          /\ paint_coverage = add_paint(last.before, wall, last.hits, params.paint_intensity)

\* C8 witness: the second frame has emitted its particles, from the nozzle position
\* after one advance, and the first frame deposited a hit
C8_Witness ==
    /\ last.op = "emit_spray"
    /\ last.step = 1
    /\ moves = 1
    /\ nozzle_position # InitialNozzle(params)
    /\ paint_coverage # ZeroCoverage

\* the particles whose hit flag is set
HitTids == { tid \in Tids : hit_wall[tid] = 1 }

\* C13: right after every emit_spray all spray_density particles are active and
\* not hit, whatever their flags were before; so the hits that collect_paint_hits
\* returns in a frame are those of particles that reached the wall plane since
\* that frame's emission, one position per such particle, and a hit of an earlier
\* frame is not collected again.
C13_FreshBatch ==
    /\ [][pc = "emit" =>
             /\ DOMAIN active' = 1..params.spray_density
             /\ \A tid \in Tids : active'[tid] = 1 /\ hit_wall'[tid] = 0]_vars
    /\ [](last.op = "collect_paint_hits" =>
             /\ Len(last.hits) = Cardinality(HitTids)
             /\ \A tid \in HitTids :
                   /\ FpLeq(positions[tid][3], FpFromMillis(WallZ))
                   /\ \E i \in 1..Len(last.hits) :
                         last.hits[i] = << positions[tid][1], positions[tid][2], FpZero >>)

\* C13 witness: the second frame collected a hit of its own batch, on a wall the
\* first frame's hit had already painted
C13_Witness ==
    /\ last.op = "collect_paint_hits"
    /\ last.step = 1
    /\ Len(last.hits) > 0
    /\ last.before # ZeroCoverage
    /\ \A tid \in HitTids : active[tid] = 0 /\ FpLeq(positions[tid][3], FpFromMillis(WallZ))

\* C14: in every state a particle whose hit flag is set is inactive; between an
\* emission and the next a particle is recorded as a hit at most once (once its
\* flag is set, the flag and the recorded position stay as they are until the
\* next emit_spray); and collect_paint_hits returns at most spray_density hits.
C14_HitImpliesInactive ==
    /\ [](\A tid \in Tids : hit_wall[tid] = 1 => active[tid] = 0)
    /\ [][pc # "emit" =>
             \A tid \in Tids :
                 hit_wall[tid] = 1 =>
                     (hit_wall'[tid] = 1 /\ positions'[tid] = positions[tid])]_vars
    /\ [](last.op = "collect_paint_hits" => Len(last.hits) <= params.spray_density)

\* C14 witness: update_particles ran over a particle that an earlier sub-step of
\* the same frame had recorded as a hit, and left it as it was
C14_Witness ==
    /\ last.op = "update_particles"
    /\ \E tid \in Tids :
          /\ last.hit_wall[tid] = 1
          /\ last.active[tid] = 0
          /\ hit_wall[tid] = 1
          /\ active[tid] = 0
          /\ positions[tid] = last.positions[tid]

-----------------------------------------------------------------------------
(* Coverage over a run: the add_paint call sequences of the deposit driver and   *)
(* the frames of run_simulation together.                                        *)

SpecCoverage == (InitDeposit \/ Init) /\ [][NextDeposit \/ Next]_vars

\* a step that deposits no hit: a frame whose collect_paint_hits found none, or
\* an add_paint call with an empty list of positions
ZeroHitStep ==
    \/ pc = "collect" /\ last'.op = "collect_paint_hits" /\ Len(last'.hits) = 0
    \/ pc = "deposit" /\ last'.op = "add_paint" /\ Len(last'.positions) = 0

\* C12: with a non-negative paint intensity no cell of paint_coverage is lower
\* after a step than before it, over any sequence of add_paint calls and of
\* frames, and a frame (or call) with zero hits leaves every cell as it was.
C12_CoverageMonotone ==
    [][ /\ params.paint_intensity[1] >= 0 =>
              \A c \in (DOMAIN paint_coverage) \cup (DOMAIN paint_coverage') :
                  Cov(paint_coverage', c[1], c[2]) >= Cov(paint_coverage, c[1], c[2])
        /\ ZeroHitStep => paint_coverage' = paint_coverage ]_vars

\* C12 witness: an add_paint call raised a cell that already held paint while a
\* cell at 1.0 stayed at 1.0
C12_Witness ==
    /\ last.op = "add_paint"
    /\ \E c \in DOMAIN last.before :
          /\ last.before[c] < F32One
          /\ Cov(paint_coverage, c[1], c[2]) > last.before[c]
    /\ \E c \in DOMAIN last.before :
          /\ last.before[c] = F32One
          /\ Cov(paint_coverage, c[1], c[2]) = F32One

-----------------------------------------------------------------------------
(***************************************************************************)
(* Construction: WallMesh.__init__, SprayParameters.__init__ followed by   *)
(* attribute assignments, and SpraySimulator.__init__.                     *)
(***************************************************************************)

\* no object
None == "None"

\* arguments passed to WallMesh(width, height, resolution)
WallWidths == {-1000, 0, 4000}

WallHeights == {0, 3000}

WallResolutions == {-1, 0, 128}

\* values assigned to the attributes of SprayParameters()
Densities == {0, MaxParticles}

FanAngles == {-20, 25}

SprayWidths == {-400, 500}

\* WallMesh.__init__: no argument is checked; np.zeros raises ValueError for a
\* negative resolution, and every other wall is built
WallMesh_init(width, height, resolution) ==
    IF resolution < 0
    THEN [raised |-> "ValueError", created |-> FALSE]
    ELSE [raised |-> "none", created |-> TRUE,
          wall |-> [width |-> width, height |-> height, resolution |-> resolution],
          paint_coverage |-> ZeroCoverage]

InitConfig ==
    /\ pc = "construct"
    /\ wall = None
    /\ paint_coverage = None
    /\ params = None
    /\ nozzle_position = None
    /\ spray_direction = None
    /\ positions = None
    /\ velocities = None
    /\ active = None
    /\ hit_wall = None
    /\ step = 0
    /\ sub = 0
    /\ moves = 0
    /\ calls = 0
    /\ last = [op |-> "init"]

\* WallMesh(width, height, resolution)
ConstructWall ==
    /\ pc = "construct"
    /\ \E width \in WallWidths, height \in WallHeights, resolution \in WallResolutions :
          LET r == WallMesh_init(width, height, resolution)
          IN  /\ IF r.created
                 THEN wall' = r.wall /\ paint_coverage' = r.paint_coverage
                 ELSE UNCHANGED <<wall, paint_coverage>>
              /\ last' = [op |-> "WallMesh", width |-> width, height |-> height,
                          resolution |-> resolution, raised |-> r.raised,
                          created |-> r.created]
    /\ UNCHANGED <<pc, params, nozzle_position, spray_direction, positions, velocities,
                   active, hit_wall, step, sub, moves, calls>>

\* SpraySimulator(spray_params), spray_params a SprayParameters() whose attributes
\* were assigned: nothing is checked
ConstructSimulator ==
    /\ pc = "construct"
    /\ \E density \in Densities, fan_angle \in FanAngles, spray_width \in SprayWidths :
          /\ params' = [DefaultParameters(density) EXCEPT
                           !.fan_angle = fan_angle, !.spray_width = spray_width]
          /\ positions' = ZeroVectors(density)
          /\ velocities' = ZeroVectors(density)
          /\ active' = ZeroFlags(density)
          /\ hit_wall' = ZeroFlags(density)
          /\ last' = [op |-> "SpraySimulator", spray_density |-> density,
                      fan_angle |-> fan_angle, spray_width |-> spray_width,
                      raised |-> "none", created |-> TRUE]
    /\ wall' = DefaultWall
    /\ paint_coverage' = ZeroCoverage
    /\ nozzle_position' = InitialNozzle(params')
    /\ spray_direction' = InitialDirection
    /\ UNCHANGED <<pc, step, sub, moves, calls>>

NextConfig == ConstructWall \/ ConstructSimulator

SpecConfig == InitConfig /\ [][NextConfig]_vars

\* C7 (as claimed): a construction with wall width <= 0, wall height <= 0,
\* resolution <= 0, spray_density <= 0, a negative fan angle or a negative spread
\* fails with a ConfigurationError and creates no state.
C7_ConstructionFailsFast ==
    /\ (/\ last.op = "WallMesh"
        /\ (last.width <= 0 \/ last.height <= 0 \/ last.resolution <= 0))
          => (last.raised = "ConfigurationError" /\ ~last.created)
    /\ (/\ last.op = "SpraySimulator"
        /\ (last.spray_density <= 0 \/ last.fan_angle < 0 \/ last.spray_width < 0))
          => (last.raised = "ConfigurationError" /\ ~last.created)

=============================================================================
